---- MODULE Spec2Model ----
(***************************************************************************)
(* Model of the data-capsule library (src/src/lib.rs): the chunking law,   *)
(* the per-chunk pipeline (encrypt, compress, size upgrade, pad, frame),   *)
(* the capsule writer, the manifest and the reverse pipeline.              *)
(*                                                                         *)
(* Representation.                                                         *)
(*  - Lengths, offsets and header fields are the program's integers.       *)
(*  - The 44-byte capsule header is a concrete byte sequence; CRC-32 is    *)
(*    computed with the byte table, as crc32fast::hash (IEEE, reflected).  *)
(*  - Input bytes, AES-256-GCM output, gzip output and SHA-256 digests are *)
(*    symbolic terms: an input slice [lo, hi), a ciphertext term that only *)
(*    the same key opens, a gzip stream that only decompresses whole, a    *)
(*    digest term that is equal exactly when the hashed bytes are equal.   *)
(*    A byte buffer made of a gzip stream and padding is described by its  *)
(*    layout (stream length, padding length, bytes kept), from which the   *)
(*    offsets of the marker FF FF FF FF and the little-endian u32 in its   *)
(*    last four bytes are derived.                                         *)
(***************************************************************************)
EXTENDS Integers, Sequences, FiniteSets, TLC

VARIABLES
    input,             \* the input bytes: [size, kind]
    encryption_key,    \* create's passphrase, Option<String>
    run,               \* the number of the create call; it names the temporary
                       \* input file and the output directory of the call
    pc,                \* the position of the sequential program
    chunk_sizes,       \* create: the plan
    plan_pos,          \* create: entries of the plan the chunk loop has taken
    chunk_index,
    bytes_processed,
    total_checksum,    \* create: the bytes fed to the running SHA-256
    capsule_data_list,
    capsules,
    reads,             \* create: the byte ranges [lo, hi) read, in order
    fs,                \* fs[d]: the files of output directory d
    create_result,     \* create_result[r]: what call r returned
    tampered,          \* how a capsule header was changed on disk, or "none"
    decryption_key,    \* extract's passphrase
    capsule_set,       \* extract: the manifest loaded
    xi,                \* extract: the capsule loop's i
    output_file,       \* extract: the bytes written to the output file
    xchecksum,         \* extract: the bytes fed to the running SHA-256
    last_header,       \* extract: what CapsuleHeader::from_bytes last returned
    extract_result,
    call,              \* a single call of one function: its name and arguments
    ret                \* what that call returned

vars == <<input, encryption_key, run, pc, chunk_sizes, plan_pos, chunk_index,
          bytes_processed, total_checksum, capsule_data_list, capsules, reads,
          fs, create_result, tampered, decryption_key, capsule_set, xi,
          output_file, xchecksum, last_header, extract_result, call, ret>>

\* the variables of a single function call
unit_vars == <<call, ret>>

(***************************************************************************)
(* Constants of the program.                                               *)
(***************************************************************************)
KB == 1024
MB == 1024 * KB
\* CAPSULE_SIZES, 0-based in the source, 1-based here.
CAPSULE_SIZES == <<256 * KB, MB, 10 * MB, 100 * MB, 1000 * MB>>
NUM_SIZES == Len(CAPSULE_SIZES)
LadderSet == {CAPSULE_SIZES[j] : j \in 1..NUM_SIZES}
PADDING_MARKER == <<255, 255, 255, 255>>
\* MIN_PADDING_PERCENT = 0.05 as the divisor of the exact quotient: for every
\* length below 2^53 the f64 product n * 0.05 truncates to n \div 20.
MIN_PADDING_DIVISOR == 20
\* The literal 0.01 of find_optimal_capsule_size, likewise n \div 100.
REDUCED_PADDING_DIVISOR == 100
REDUCED_PADDING_FLOOR == 1024
\* "DIGCAP01"
CAPSULE_MAGIC == <<68, 73, 71, 67, 65, 80, 48, 49>>
CAPSULE_HEADER_SIZE == 44
CAPSULE_VERSION == 1
FLAG_ENCRYPTED == 1
FLAG_COMPRESSED == 2

Min(a, b) == IF a <= b THEN a ELSE b
Max(a, b) == IF a >= b THEN a ELSE b

\* Option<T>: None is the empty sequence, Some(x) the one-element sequence.
None == <<>>
Some(x) == <<x>>
IsSome(o) == Len(o) = 1
Unwrap(o) == o[1]

\* Result<T, E>
Ok(v) == [ok |-> TRUE, v |-> v, err |-> "none"]
Err(e) == [ok |-> FALSE, v |-> <<>>, err |-> e]

(***************************************************************************)
(* Integer and byte helpers.                                               *)
(***************************************************************************)
\* u32::to_le_bytes, for values below 2^31 (every integer of the model is).
to_le_bytes(n) ==
    <<n % 256, (n \div 256) % 256, (n \div 65536) % 256, (n \div 16777216) % 256>>

\* u32::to_be_bytes
to_be_bytes(n) ==
    <<(n \div 16777216) % 256, (n \div 65536) % 256, (n \div 256) % 256, n % 256>>

\* u32::from_le_bytes. The value of a word whose top bit is set does not fit
\* the model's integers; such a word decodes to -1, which equals no u32 the
\* program compares it with (1, 44, the ladder values are all below 2^31).
from_le_bytes(b) ==
    IF b[4] >= 128 THEN -1
    ELSE b[1] + 256 * b[2] + 65536 * b[3] + 16777216 * b[4]

\* bytes[from..to) with 0-based offsets, as a Rust slice.
Slice(bytes, from, to) == SubSeq(bytes, from + 1, to)

(***************************************************************************)
(* CRC-32 (IEEE 802.3), as crc32fast::hash: reflected, polynomial          *)
(* 0xEDB88320, initial value and final xor 0xFFFFFFFF, computed a byte at  *)
(* a time with the standard table.  A 32-bit word is its four bytes,       *)
(* least significant first.                                                *)
(***************************************************************************)
\* a xor b for 4-bit a and b, at Xor4[a + 1][b + 1]
Xor4 == <<
    <<0, 1, 2, 3, 4, 5, 6, 7, 8, 9, 10, 11, 12, 13, 14, 15>>,
    <<1, 0, 3, 2, 5, 4, 7, 6, 9, 8, 11, 10, 13, 12, 15, 14>>,
    <<2, 3, 0, 1, 6, 7, 4, 5, 10, 11, 8, 9, 14, 15, 12, 13>>,
    <<3, 2, 1, 0, 7, 6, 5, 4, 11, 10, 9, 8, 15, 14, 13, 12>>,
    <<4, 5, 6, 7, 0, 1, 2, 3, 12, 13, 14, 15, 8, 9, 10, 11>>,
    <<5, 4, 7, 6, 1, 0, 3, 2, 13, 12, 15, 14, 9, 8, 11, 10>>,
    <<6, 7, 4, 5, 2, 3, 0, 1, 14, 15, 12, 13, 10, 11, 8, 9>>,
    <<7, 6, 5, 4, 3, 2, 1, 0, 15, 14, 13, 12, 11, 10, 9, 8>>,
    <<8, 9, 10, 11, 12, 13, 14, 15, 0, 1, 2, 3, 4, 5, 6, 7>>,
    <<9, 8, 11, 10, 13, 12, 15, 14, 1, 0, 3, 2, 5, 4, 7, 6>>,
    <<10, 11, 8, 9, 14, 15, 12, 13, 2, 3, 0, 1, 6, 7, 4, 5>>,
    <<11, 10, 9, 8, 15, 14, 13, 12, 3, 2, 1, 0, 7, 6, 5, 4>>,
    <<12, 13, 14, 15, 8, 9, 10, 11, 4, 5, 6, 7, 0, 1, 2, 3>>,
    <<13, 12, 15, 14, 9, 8, 11, 10, 5, 4, 7, 6, 1, 0, 3, 2>>,
    <<14, 15, 12, 13, 10, 11, 8, 9, 6, 7, 4, 5, 2, 3, 0, 1>>,
    <<15, 14, 13, 12, 11, 10, 9, 8, 7, 6, 5, 4, 3, 2, 1, 0>>
>>

\* a xor b for bytes a and b
XorByte(a, b) ==
    16 * Xor4[(a \div 16) + 1][(b \div 16) + 1] + Xor4[(a % 16) + 1][(b % 16) + 1]

\* CrcTable[n + 1]: n shifted right eight times, xoring 0xEDB88320 in whenever
\* the bit shifted out is set
CrcTable == <<
    <<0, 0, 0, 0>>, <<150, 48, 7, 119>>, <<44, 97, 14, 238>>, <<186, 81, 9, 153>>,
    <<25, 196, 109, 7>>, <<143, 244, 106, 112>>, <<53, 165, 99, 233>>, <<163, 149, 100, 158>>,
    <<50, 136, 219, 14>>, <<164, 184, 220, 121>>, <<30, 233, 213, 224>>, <<136, 217, 210, 151>>,
    <<43, 76, 182, 9>>, <<189, 124, 177, 126>>, <<7, 45, 184, 231>>, <<145, 29, 191, 144>>,
    <<100, 16, 183, 29>>, <<242, 32, 176, 106>>, <<72, 113, 185, 243>>, <<222, 65, 190, 132>>,
    <<125, 212, 218, 26>>, <<235, 228, 221, 109>>, <<81, 181, 212, 244>>, <<199, 133, 211, 131>>,
    <<86, 152, 108, 19>>, <<192, 168, 107, 100>>, <<122, 249, 98, 253>>, <<236, 201, 101, 138>>,
    <<79, 92, 1, 20>>, <<217, 108, 6, 99>>, <<99, 61, 15, 250>>, <<245, 13, 8, 141>>,
    <<200, 32, 110, 59>>, <<94, 16, 105, 76>>, <<228, 65, 96, 213>>, <<114, 113, 103, 162>>,
    <<209, 228, 3, 60>>, <<71, 212, 4, 75>>, <<253, 133, 13, 210>>, <<107, 181, 10, 165>>,
    <<250, 168, 181, 53>>, <<108, 152, 178, 66>>, <<214, 201, 187, 219>>, <<64, 249, 188, 172>>,
    <<227, 108, 216, 50>>, <<117, 92, 223, 69>>, <<207, 13, 214, 220>>, <<89, 61, 209, 171>>,
    <<172, 48, 217, 38>>, <<58, 0, 222, 81>>, <<128, 81, 215, 200>>, <<22, 97, 208, 191>>,
    <<181, 244, 180, 33>>, <<35, 196, 179, 86>>, <<153, 149, 186, 207>>, <<15, 165, 189, 184>>,
    <<158, 184, 2, 40>>, <<8, 136, 5, 95>>, <<178, 217, 12, 198>>, <<36, 233, 11, 177>>,
    <<135, 124, 111, 47>>, <<17, 76, 104, 88>>, <<171, 29, 97, 193>>, <<61, 45, 102, 182>>,
    <<144, 65, 220, 118>>, <<6, 113, 219, 1>>, <<188, 32, 210, 152>>, <<42, 16, 213, 239>>,
    <<137, 133, 177, 113>>, <<31, 181, 182, 6>>, <<165, 228, 191, 159>>, <<51, 212, 184, 232>>,
    <<162, 201, 7, 120>>, <<52, 249, 0, 15>>, <<142, 168, 9, 150>>, <<24, 152, 14, 225>>,
    <<187, 13, 106, 127>>, <<45, 61, 109, 8>>, <<151, 108, 100, 145>>, <<1, 92, 99, 230>>,
    <<244, 81, 107, 107>>, <<98, 97, 108, 28>>, <<216, 48, 101, 133>>, <<78, 0, 98, 242>>,
    <<237, 149, 6, 108>>, <<123, 165, 1, 27>>, <<193, 244, 8, 130>>, <<87, 196, 15, 245>>,
    <<198, 217, 176, 101>>, <<80, 233, 183, 18>>, <<234, 184, 190, 139>>, <<124, 136, 185, 252>>,
    <<223, 29, 221, 98>>, <<73, 45, 218, 21>>, <<243, 124, 211, 140>>, <<101, 76, 212, 251>>,
    <<88, 97, 178, 77>>, <<206, 81, 181, 58>>, <<116, 0, 188, 163>>, <<226, 48, 187, 212>>,
    <<65, 165, 223, 74>>, <<215, 149, 216, 61>>, <<109, 196, 209, 164>>, <<251, 244, 214, 211>>,
    <<106, 233, 105, 67>>, <<252, 217, 110, 52>>, <<70, 136, 103, 173>>, <<208, 184, 96, 218>>,
    <<115, 45, 4, 68>>, <<229, 29, 3, 51>>, <<95, 76, 10, 170>>, <<201, 124, 13, 221>>,
    <<60, 113, 5, 80>>, <<170, 65, 2, 39>>, <<16, 16, 11, 190>>, <<134, 32, 12, 201>>,
    <<37, 181, 104, 87>>, <<179, 133, 111, 32>>, <<9, 212, 102, 185>>, <<159, 228, 97, 206>>,
    <<14, 249, 222, 94>>, <<152, 201, 217, 41>>, <<34, 152, 208, 176>>, <<180, 168, 215, 199>>,
    <<23, 61, 179, 89>>, <<129, 13, 180, 46>>, <<59, 92, 189, 183>>, <<173, 108, 186, 192>>,
    <<32, 131, 184, 237>>, <<182, 179, 191, 154>>, <<12, 226, 182, 3>>, <<154, 210, 177, 116>>,
    <<57, 71, 213, 234>>, <<175, 119, 210, 157>>, <<21, 38, 219, 4>>, <<131, 22, 220, 115>>,
    <<18, 11, 99, 227>>, <<132, 59, 100, 148>>, <<62, 106, 109, 13>>, <<168, 90, 106, 122>>,
    <<11, 207, 14, 228>>, <<157, 255, 9, 147>>, <<39, 174, 0, 10>>, <<177, 158, 7, 125>>,
    <<68, 147, 15, 240>>, <<210, 163, 8, 135>>, <<104, 242, 1, 30>>, <<254, 194, 6, 105>>,
    <<93, 87, 98, 247>>, <<203, 103, 101, 128>>, <<113, 54, 108, 25>>, <<231, 6, 107, 110>>,
    <<118, 27, 212, 254>>, <<224, 43, 211, 137>>, <<90, 122, 218, 16>>, <<204, 74, 221, 103>>,
    <<111, 223, 185, 249>>, <<249, 239, 190, 142>>, <<67, 190, 183, 23>>, <<213, 142, 176, 96>>,
    <<232, 163, 214, 214>>, <<126, 147, 209, 161>>, <<196, 194, 216, 56>>, <<82, 242, 223, 79>>,
    <<241, 103, 187, 209>>, <<103, 87, 188, 166>>, <<221, 6, 181, 63>>, <<75, 54, 178, 72>>,
    <<218, 43, 13, 216>>, <<76, 27, 10, 175>>, <<246, 74, 3, 54>>, <<96, 122, 4, 65>>,
    <<195, 239, 96, 223>>, <<85, 223, 103, 168>>, <<239, 142, 110, 49>>, <<121, 190, 105, 70>>,
    <<140, 179, 97, 203>>, <<26, 131, 102, 188>>, <<160, 210, 111, 37>>, <<54, 226, 104, 82>>,
    <<149, 119, 12, 204>>, <<3, 71, 11, 187>>, <<185, 22, 2, 34>>, <<47, 38, 5, 85>>,
    <<190, 59, 186, 197>>, <<40, 11, 189, 178>>, <<146, 90, 180, 43>>, <<4, 106, 179, 92>>,
    <<167, 255, 215, 194>>, <<49, 207, 208, 181>>, <<139, 158, 217, 44>>, <<29, 174, 222, 91>>,
    <<176, 194, 100, 155>>, <<38, 242, 99, 236>>, <<156, 163, 106, 117>>, <<10, 147, 109, 2>>,
    <<169, 6, 9, 156>>, <<63, 54, 14, 235>>, <<133, 103, 7, 114>>, <<19, 87, 0, 5>>,
    <<130, 74, 191, 149>>, <<20, 122, 184, 226>>, <<174, 43, 177, 123>>, <<56, 27, 182, 12>>,
    <<155, 142, 210, 146>>, <<13, 190, 213, 229>>, <<183, 239, 220, 124>>, <<33, 223, 219, 11>>,
    <<212, 210, 211, 134>>, <<66, 226, 212, 241>>, <<248, 179, 221, 104>>, <<110, 131, 218, 31>>,
    <<205, 22, 190, 129>>, <<91, 38, 185, 246>>, <<225, 119, 176, 111>>, <<119, 71, 183, 24>>,
    <<230, 90, 8, 136>>, <<112, 106, 15, 255>>, <<202, 59, 6, 102>>, <<92, 11, 1, 17>>,
    <<255, 158, 101, 143>>, <<105, 174, 98, 248>>, <<211, 255, 107, 97>>, <<69, 207, 108, 22>>,
    <<120, 226, 10, 160>>, <<238, 210, 13, 215>>, <<84, 131, 4, 78>>, <<194, 179, 3, 57>>,
    <<97, 38, 103, 167>>, <<247, 22, 96, 208>>, <<77, 71, 105, 73>>, <<219, 119, 110, 62>>,
    <<74, 106, 209, 174>>, <<220, 90, 214, 217>>, <<102, 11, 223, 64>>, <<240, 59, 216, 55>>,
    <<83, 174, 188, 169>>, <<197, 158, 187, 222>>, <<127, 207, 178, 71>>, <<233, 255, 181, 48>>,
    <<28, 242, 189, 189>>, <<138, 194, 186, 202>>, <<48, 147, 179, 83>>, <<166, 163, 180, 36>>,
    <<5, 54, 208, 186>>, <<147, 6, 215, 205>>, <<41, 87, 222, 84>>, <<191, 103, 217, 35>>,
    <<46, 122, 102, 179>>, <<184, 74, 97, 196>>, <<2, 27, 104, 93>>, <<148, 43, 111, 42>>,
    <<55, 190, 11, 180>>, <<161, 142, 12, 195>>, <<27, 223, 5, 90>>, <<141, 239, 2, 45>>
>>

\* crc = table[(crc ^ byte) & 0xFF] ^ (crc >> 8)
CrcByte(w, byte) ==
    LET e == CrcTable[XorByte(w[1], byte) + 1]
    IN <<XorByte(e[1], w[2]), XorByte(e[2], w[3]), XorByte(e[3], w[4]), e[4]>>

RECURSIVE CrcFold(_, _, _)
CrcFold(w, bytes, k) ==
    IF k > Len(bytes) THEN w
    ELSE LET nw == CrcByte(w, bytes[k])
         IN IF nw[1] >= 0 THEN CrcFold(nw, bytes, k + 1) ELSE nw

\* crc32fast::hash(bytes), returned as the four little-endian bytes of the u32
crc32_le(bytes) ==
    LET w == CrcFold(<<255, 255, 255, 255>>, bytes, 1)
    IN <<255 - w[1], 255 - w[2], 255 - w[3], 255 - w[4]>>

(***************************************************************************)
(* CapsuleHeader.  header_checksum is kept as its four little-endian bytes *)
(* (a CRC does not fit the model's integers); two checksums are equal      *)
(* exactly when these bytes are.                                           *)
(***************************************************************************)
\* calculate_checksum_without_field leaving out the last field, data_offset
calculate_checksum_without_offset(h) ==
    crc32_le(h.magic \o to_le_bytes(h.version) \o to_le_bytes(h.capsule_index)
             \o to_le_bytes(h.capsule_size) \o to_le_bytes(h.data_size)
             \o to_le_bytes(h.flags) \o h.reserved)

\* CapsuleHeader::calculate_checksum_without_field
calculate_checksum_without_field(h) ==
    crc32_le(h.magic \o to_le_bytes(h.version) \o to_le_bytes(h.capsule_index)
             \o to_le_bytes(h.capsule_size) \o to_le_bytes(h.data_size)
             \o to_le_bytes(h.flags) \o h.reserved \o to_le_bytes(h.data_offset))

\* CapsuleHeader::new
CapsuleHeader_new(capsule_index, capsule_size, data_size, encrypted, compressed) ==
    LET flags == (IF encrypted THEN FLAG_ENCRYPTED ELSE 0)
                 + (IF compressed THEN FLAG_COMPRESSED ELSE 0)
        header == [magic |-> CAPSULE_MAGIC,
                   version |-> CAPSULE_VERSION,
                   capsule_index |-> capsule_index,
                   capsule_size |-> capsule_size,
                   data_size |-> data_size,
                   flags |-> flags,
                   reserved |-> <<0, 0, 0, 0, 0, 0, 0, 0>>,
                   header_checksum |-> <<0, 0, 0, 0>>,
                   data_offset |-> CAPSULE_HEADER_SIZE]
    IN [header EXCEPT !.header_checksum = calculate_checksum_without_field(header)]

\* CapsuleHeader::to_bytes
to_bytes(h) ==
    h.magic \o to_le_bytes(h.version) \o to_le_bytes(h.capsule_index)
    \o to_le_bytes(h.capsule_size) \o to_le_bytes(h.data_size)
    \o to_le_bytes(h.flags) \o h.reserved \o h.header_checksum
    \o to_le_bytes(h.data_offset)

\* CapsuleHeader::from_bytes
from_bytes(bytes) ==
    IF Len(bytes) < CAPSULE_HEADER_SIZE THEN Err("InvalidFormat")
    ELSE
      LET magic == Slice(bytes, 0, 8) IN
      IF magic # CAPSULE_MAGIC THEN Err("InvalidFormat")
      ELSE
        LET header == [magic |-> magic,
                       version |-> from_le_bytes(Slice(bytes, 8, 12)),
                       capsule_index |-> from_le_bytes(Slice(bytes, 12, 16)),
                       capsule_size |-> from_le_bytes(Slice(bytes, 16, 20)),
                       data_size |-> from_le_bytes(Slice(bytes, 20, 24)),
                       flags |-> from_le_bytes(Slice(bytes, 24, 28)),
                       reserved |-> Slice(bytes, 28, 36),
                       header_checksum |-> Slice(bytes, 36, 40),
                       data_offset |-> from_le_bytes(Slice(bytes, 40, 44))]
            \* header.calculate_checksum_without_field(): the decoded fields
            \* re-encode to bytes 0..36 and 40..44 of the input
            expected_checksum ==
                crc32_le(Slice(bytes, 0, 36) \o Slice(bytes, 40, 44))
        IN IF header.header_checksum # expected_checksum
           THEN Err("ChecksumMismatch")
           ELSE Ok(header)

(***************************************************************************)
(* Byte data as symbolic terms.  A data value is a sequence of atoms:      *)
(*   raw  - the bytes [lo, hi) of the input, of content class `kind`;      *)
(*   aes  - nonce || AES-256-GCM(key, nonce, pt) with its 16-byte tag.     *)
(* Adjacent raw atoms of consecutive ranges are one atom.                  *)
(***************************************************************************)
Raw(kind, lo, hi) ==
    [t |-> "raw", kind |-> kind, lo |-> lo, hi |-> hi,
     key |-> <<>>, nonce |-> <<>>, pt |-> <<>>]
Aes(key, nonce, pt) ==
    [t |-> "aes", kind |-> "cipher", lo |-> 0, hi |-> 0,
     key |-> key, nonce |-> nonce, pt |-> pt]

\* &mmap[lo..hi]
MmapSlice(kind, lo, hi) == IF lo = hi THEN <<>> ELSE <<Raw(kind, lo, hi)>>

RECURSIVE DataLen(_)
DataLen(data) ==
    IF data = <<>> THEN 0
    ELSE LET a == data[1]
         IN (IF a.t = "raw" THEN a.hi - a.lo ELSE 12 + DataLen(a.pt) + 16)
            + DataLen(Tail(data))

\* data followed by more: what hasher.update and writer.write_all accumulate
Concat(data, more) ==
    IF data = <<>> THEN more
    ELSE IF more = <<>> THEN data
    ELSE LET a == data[Len(data)]
             b == more[1]
         IN IF a.t = "raw" /\ b.t = "raw" /\ a.kind = b.kind /\ a.hi = b.lo
            THEN SubSeq(data, 1, Len(data) - 1) \o <<Raw(a.kind, a.lo, b.hi)>>
                 \o Tail(more)
            ELSE data \o more

\* hex::encode(Sha256(bytes)): equal exactly when the hashed bytes are equal
Sha256Hex(bytes) == [sha256 |-> bytes]
\* &id[..16]
Prefix16(id) == [hex16 |-> id]

(***************************************************************************)
(* StreamingCapsuleProcessor                                               *)
(***************************************************************************)
\* derive_consensus_key: SHA-256(key_str || "DIG_CAPSULE_SALT_V1")
derive_consensus_key(key_str) == <<"sha256", key_str, "DIG_CAPSULE_SALT_V1">>

\* StreamingCapsuleProcessor::new: the processor is its encryption_key
StreamingCapsuleProcessor_new(self_key) ==
    IF IsSome(self_key)
    THEN Some(derive_consensus_key(Unwrap(self_key)))
    ELSE None

\* determine_chunk_sizes: the ladder walk from the largest size (index j)
\* down, returning <<chunks, remaining>>
RECURSIVE ChunkWalk(_, _, _)
ChunkWalk(j, remaining, chunks) ==
    IF j = 0 THEN <<chunks, remaining>>
    ELSE IF remaining >= CAPSULE_SIZES[j]
         THEN ChunkWalk(j, remaining - CAPSULE_SIZES[j],
                        Append(chunks, CAPSULE_SIZES[j]))
         ELSE ChunkWalk(j - 1, remaining, chunks)

\* determine_chunk_sizes with the walk's comparison strict: a size is taken
\* only while more than it remains
RECURSIVE ChunkWalk_strict(_, _, _)
ChunkWalk_strict(j, remaining, chunks) ==
    IF j = 0 THEN <<chunks, remaining>>
    ELSE IF remaining > CAPSULE_SIZES[j]
         THEN ChunkWalk_strict(j, remaining - CAPSULE_SIZES[j],
                               Append(chunks, CAPSULE_SIZES[j]))
         ELSE ChunkWalk_strict(j - 1, remaining, chunks)

determine_chunk_sizes_strict(total_size) ==
    LET walked == ChunkWalk_strict(NUM_SIZES, total_size, <<>>)
    IN IF walked[2] > 0 THEN Append(walked[1], CAPSULE_SIZES[1]) ELSE walked[1]

determine_chunk_sizes(total_size) ==
    LET walked == ChunkWalk(NUM_SIZES, total_size, <<>>)
    IN IF walked[2] > 0 THEN Append(walked[1], CAPSULE_SIZES[1]) ELSE walked[1]

\* find_optimal_capsule_size answering the space required when the target
\* does not hold the data, instead of a size of the ladder
find_optimal_capsule_size_exact(processed_data_size, target_capsule_size) ==
    LET min_padding == processed_data_size \div MIN_PADDING_DIVISOR
        required_space == processed_data_size + Len(PADDING_MARKER) + 4 + min_padding
    IN IF required_space <= target_capsule_size THEN target_capsule_size
       ELSE required_space

\* find_optimal_capsule_size without the reduced-padding step
find_optimal_capsule_size_unreduced(processed_data_size, target_capsule_size) ==
    LET min_padding == processed_data_size \div MIN_PADDING_DIVISOR
        required_space == processed_data_size + Len(PADDING_MARKER) + 4 + min_padding
        larger == {j \in 1..NUM_SIZES :
                      /\ CAPSULE_SIZES[j] > target_capsule_size
                      /\ required_space <= CAPSULE_SIZES[j]}
    IN IF required_space <= target_capsule_size THEN target_capsule_size
       ELSE IF larger # {}
            THEN CAPSULE_SIZES[CHOOSE j \in larger : \A k \in larger : j <= k]
            ELSE CAPSULE_SIZES[NUM_SIZES]

\* find_optimal_capsule_size
find_optimal_capsule_size(processed_data_size, target_capsule_size) ==
    LET min_padding == processed_data_size \div MIN_PADDING_DIVISOR
        required_space == processed_data_size + Len(PADDING_MARKER) + 4 + min_padding
        min_padding_reduced ==
            Max(processed_data_size \div REDUCED_PADDING_DIVISOR, REDUCED_PADDING_FLOOR)
        required_space_reduced ==
            processed_data_size + Len(PADDING_MARKER) + 4 + min_padding_reduced
        larger == {j \in 1..NUM_SIZES :
                      /\ CAPSULE_SIZES[j] > target_capsule_size
                      /\ required_space <= CAPSULE_SIZES[j]}
    IN IF required_space <= target_capsule_size THEN target_capsule_size
       ELSE IF required_space_reduced <= target_capsule_size THEN target_capsule_size
       ELSE IF larger # {}
            THEN CAPSULE_SIZES[CHOOSE j \in larger : \A k \in larger : j <= k]
            ELSE CAPSULE_SIZES[NUM_SIZES]

\* the deterministic nonce of encrypt_stream
nonce_bytes(index) ==
    to_be_bytes(index) \o <<68, 73, 71, 49>> \o <<0, 0, 0, 0>>

\* encrypt_stream
encrypt_stream(self_key, data, index) ==
    IF IsSome(self_key)
    THEN <<Aes(Unwrap(self_key), nonce_bytes(index), data)>>
    ELSE data

\* decrypt_stream that hands on, as it is, data that is not sealed under the key
decrypt_stream_passthrough(self_key, data) ==
    IF /\ IsSome(self_key)
       /\ Len(data) = 1
       /\ data[1].t = "aes"
       /\ data[1].key = Unwrap(self_key)
    THEN Ok(data[1].pt)
    ELSE Ok(data)

\* decrypt_stream: the nonce is the first 12 bytes of the data; AES-GCM opens
\* only what was sealed under the same key and nonce
decrypt_stream(self_key, data) ==
    IF IsSome(self_key)
    THEN IF DataLen(data) < 12 THEN Err("IoError")
         ELSE IF /\ Len(data) = 1
                 /\ data[1].t = "aes"
                 /\ data[1].key = Unwrap(self_key)
              THEN Ok(data[1].pt)
              ELSE Err("DecryptionFailed")
    ELSE Ok(data)

(***************************************************************************)
(* gzip.  The length of the stream depends on the content class of what is *)
(* compressed:                                                             *)
(*   zeros    - highly compressible;                                       *)
(*   dense    - compresses by about 3 percent;                             *)
(*   random   - incompressible: deflate stores it, 5 bytes per block of    *)
(*              65535 and 18 bytes of gzip header and trailer;             *)
(*   randomFF - incompressible, and the CRC-32 of every compressed chunk   *)
(*              is FF FF FF FF, which the gzip trailer carries;            *)
(*   tight    - as dense, except that a chunk of the largest ladder size   *)
(*              compresses to that size less 8 bytes;                      *)
(*   AES-GCM output is incompressible whatever was encrypted.              *)
(* The trailer is CRC-32 then ISIZE (the input length, little-endian).     *)
(***************************************************************************)
PlainKind(data) ==
    IF data = <<>> THEN "empty"
    ELSE IF data[1].t = "raw" THEN data[1].kind
    ELSE IF data[1].pt = <<>> THEN "empty" ELSE data[1].pt[1].kind

Incompressible(data) ==
    data # <<>> /\ (data[1].t = "aes" \/ data[1].kind \in {"random", "randomFF"})

GzipLen(data) ==
    LET n == DataLen(data)
    IN IF n = 0 THEN 20
       ELSE IF Incompressible(data) THEN n + 18 + 5 * ((n + 65534) \div 65535)
       ELSE IF data[1].kind = "tight" /\ n = CAPSULE_SIZES[NUM_SIZES]
            THEN n - Len(PADDING_MARKER) - 4
       ELSE IF data[1].kind \in {"dense", "tight"} THEN 20 + n - (n \div 32)
       ELSE 20 + (n \div 1024)

\* offsets of FF FF FF FF inside the gzip stream of data
GzipMarkers(data) ==
    IF PlainKind(data) = "randomFF" THEN {GzipLen(data) - 8} ELSE {}

(***************************************************************************)
(* A buffer holding a gzip stream, possibly followed by padding, possibly  *)
(* cut to its first `take` bytes:                                          *)
(*   gz     the data that was compressed      mtime  the gzip header MTIME *)
(*   D      the length of the gzip stream                                  *)
(*   fill   the number of filler bytes, -1 when no padding was added       *)
(*   footer the u32 of the size footer        seed   the padding's index   *)
(* layout: stream (D) || marker (4) || filler (fill) || footer (4).        *)
(***************************************************************************)
\* compress_stream with the gzip header's MTIME taken from the clock, which
\* differs from one call of create to the next
compress_stream_stamped(data) ==
    [gz |-> data, mtime |-> run, D |-> GzipLen(data),
     fill |-> -1, footer |-> 0, seed |-> 0, take |-> GzipLen(data)]

\* compress_stream: GzEncoder at level 6; flate2 writes MTIME 0
compress_stream(data) ==
    [gz |-> data, mtime |-> 0, D |-> GzipLen(data),
     fill |-> -1, footer |-> 0, seed |-> 0, take |-> GzipLen(data)]

\* A Vec<u8> is either the layout [gz, mtime, D, fill, footer, seed, take] of
\* what create writes, or its bytes themselves, [bytes |-> <<...>>].
IsBytes(buf) == "bytes" \in DOMAIN buf

BufLen(buf) == IF IsBytes(buf) THEN Len(buf.bytes) ELSE buf.take
FullLen(buf) == IF buf.fill < 0 THEN buf.D ELSE buf.D + 4 + buf.fill + 4

\* offsets i with buf[i..i+4] = FF FF FF FF.  The filler repeats
\* SHA-256(be32(seed) || "DIG_PADDING_SEED_V1"), which for every seed below 21
\* holds no FF FF FF FF, also across its repetition.
MarkerOffsets(buf) ==
    IF IsBytes(buf)
    THEN {i \in 0..(Len(buf.bytes) - 4) : Slice(buf.bytes, i, i + 4) = PADDING_MARKER}
    ELSE {i \in GzipMarkers(buf.gz) \cup (IF buf.fill >= 0 THEN {buf.D} ELSE {}) :
             i + 4 <= buf.take}

\* u32::from_le_bytes of the last four bytes of a whole buffer: the size
\* footer when padded, else the ISIZE of the gzip trailer
LastU32(buf) ==
    IF IsBytes(buf)
    THEN LET b == Slice(buf.bytes, Len(buf.bytes) - 4, Len(buf.bytes))
         IN IF b[4] >= 128 THEN 2147483647 ELSE from_le_bytes(b)
    ELSE IF buf.take # FullLen(buf) THEN 0
    ELSE IF buf.fill >= 0 THEN buf.footer
    ELSE DataLen(buf.gz)

\* add_deterministic_padding(data, current_size, target_size, chunk_index).
\* target_size - current_size - 8 is computed in usize: below zero it panics
\* in a build with overflow checks and wraps to about 2^64 in one without,
\* where the padding loop then exhausts memory; both end the call ("Panic").
add_deterministic_padding(data, current_size, target_size, index) ==
    IF current_size >= target_size THEN Ok(data)
    ELSE IF target_size - current_size - Len(PADDING_MARKER) - 4 < 0 THEN Err("Panic")
    ELSE LET available_space == target_size - current_size - Len(PADDING_MARKER) - 4
         IN IF available_space = 0 THEN Err("ConsensusViolation")
            ELSE Ok([data EXCEPT !.fill = available_space,
                                 !.footer = current_size,
                                 !.seed = index,
                                 !.take = data.take + Len(PADDING_MARKER)
                                          + available_space + 4])

\* data.len().saturating_sub(4)
saturating_sub(a, b) == IF a >= b THEN a - b ELSE 0

\* &data[..n]
Truncated(data, n) ==
    IF IsBytes(data) THEN [bytes |-> Slice(data.bytes, 0, n)]
    ELSE [data EXCEPT !.take = n]

\* remove_padding: the scan for the marker from the tail
remove_padding(data) ==
    LET len == BufLen(data)
        hits == {i \in MarkerOffsets(data) :
                    /\ 4 <= i /\ i < saturating_sub(len, 4)
                    /\ LastU32(data) <= i}
    IN IF hits # {} THEN Truncated(data, LastU32(data)) ELSE data

\* decompress_stream: GzDecoder reads one gzip member and needs all of it
decompress_stream(buf) ==
    IF buf.take >= buf.D THEN Ok(buf.gz) ELSE Err("IoError")

(***************************************************************************)
(* Bounds of the model.                                                    *)
(***************************************************************************)
\* an input is up to MaxCount pieces of each of the two smallest ladder
\* sizes, up to one of each of the three larger, and a tail of 0 or 1 byte
MaxCount == 1
\* create is called up to MaxRuns times on the same input and passphrase
MaxRuns == 2

InputSizes ==
    {c1 * CAPSULE_SIZES[1] + c2 * CAPSULE_SIZES[2] + c3 * CAPSULE_SIZES[3]
       + c4 * CAPSULE_SIZES[4] + c5 * CAPSULE_SIZES[5] + r :
       c1 \in 0..MaxCount, c2 \in 0..MaxCount,
       c3 \in 0..1, c4 \in 0..1, c5 \in 0..1, r \in 0..1}
InputKinds == {"zeros", "dense", "tight", "random", "randomFF"}
CreatePassphrases == {None, Some("pw")}
ExtractPassphrases == {None, Some("pw"), Some("k")}
TamperKinds == {"flip", "magic", "version", "size", "offset", "index"}

(***************************************************************************)
(* The output directory: capsule files and manifest files by name.         *)
(***************************************************************************)
EmptyDir == [capsule |-> {}, manifest |-> {}]
\* a capsule file name without the index of the capsule
CapsuleFileName_unindexed(id, index) == [prefix |-> Prefix16(id), index |-> 0]
CapsuleFileName(id, index) == [prefix |-> Prefix16(id), index |-> index]
ManifestFileName(id) == [prefix |-> Prefix16(id)]
\* File::create then write_all: the file of that name now holds these bytes
WriteFile(files, name, content) ==
    {e \in files : e.name # name} \cup {[name |-> name, content |-> content]}
HasFile(files, name) == \E e \in files : e.name = name
ReadFile(files, name) == (CHOOSE e \in files : e.name = name).content
\* the bytes of a capsule file: the header bytes, then the payload
CapsuleFile(header_bytes, data) == [header |-> header_bytes, payload |-> data]
FileLen(file) == Len(file.header) + BufLen(file.payload)

EncryptionInfo ==
    [algorithm |-> "AES-256-GCM", key_derivation |-> "PBKDF2-HMAC-SHA256",
     iterations |-> 100000, salt |-> "DIG_CAPSULE_SALT_V1"]
CompressionInfo(original_size) ==
    [algorithm |-> "gzip", level |-> 6, original_size |-> original_size]

Init ==
    /\ input \in [size : InputSizes, kind : InputKinds]
    /\ encryption_key \in CreatePassphrases
    /\ run = 1
    /\ pc = "create"
    /\ chunk_sizes = <<>>
    /\ plan_pos = 0
    /\ chunk_index = 0
    /\ bytes_processed = 0
    /\ total_checksum = <<>>
    /\ capsule_data_list = <<>>
    /\ capsules = <<>>
    /\ reads = <<>>
    /\ fs = [d \in 1..MaxRuns |-> EmptyDir]
    /\ create_result = <<>>
    /\ tampered = "none"
    /\ decryption_key = None
    /\ capsule_set = None
    /\ xi = 0
    /\ output_file = <<>>
    /\ xchecksum = <<>>
    /\ last_header = None
    /\ extract_result = None
    /\ call = None
    /\ ret = None

extract_vars == <<decryption_key, capsule_set, xi, output_file, xchecksum,
                  last_header, extract_result>>

(***************************************************************************)
(* create_data_capsule_from_file_internal                                  *)
(***************************************************************************)
\* lines 599-609 and 707-717: the processor, the input size, the plan
CreateBegin ==
    /\ pc = "create"
    /\ IF input.size = 0
       THEN /\ pc' = "empty_capsule"
            /\ UNCHANGED chunk_sizes
       ELSE /\ chunk_sizes' = determine_chunk_sizes(input.size)
            /\ pc' = "chunks"
    /\ plan_pos' = 0
    /\ chunk_index' = 0
    /\ bytes_processed' = 0
    /\ total_checksum' = <<>>
    /\ capsule_data_list' = <<>>
    /\ capsules' = <<>>
    /\ reads' = <<>>
    /\ UNCHANGED <<input, encryption_key, run, fs, create_result, tampered>>
    /\ UNCHANGED extract_vars
    /\ UNCHANGED unit_vars

\* the CapsuleData of one chunk: the header, the padded data and the capsule
\* hash SHA-256(header bytes || data), lines 783-794
CapsuleData(header, final_data) ==
    [header |-> header,
     data |-> final_data,
     hash |-> Sha256Hex(<<to_bytes(header), final_data>>)]

\* the header made once padding returned, lines 765-781 (643-649 for the
\* empty input)
FrameCapsule(padded, index, capsule_size, encrypted) ==
    IF ~padded.ok THEN padded
    ELSE Ok(CapsuleData(CapsuleHeader_new(index, capsule_size, BufLen(padded.v),
                                          encrypted, TRUE),
                        padded.v))

\* one chunk through encrypt, compress, size choice, padding and framing
\* (the body of the chunk loop, lines 737-794): the CapsuleData or the error
ProcessChunkData(processor, chunk_data, target_chunk_size, index) ==
    LET encrypted_data == encrypt_stream(processor, chunk_data, index)
        compressed_data == compress_stream(encrypted_data)
        optimal_capsule_size ==
            find_optimal_capsule_size(BufLen(compressed_data), target_chunk_size)
    IN FrameCapsule(add_deterministic_padding(compressed_data, BufLen(compressed_data),
                                              optimal_capsule_size, index),
                    index, optimal_capsule_size, IsSome(processor))

\* the iteration of the chunk loop going on to write the capsule files as
\* soon as one chunk is processed
ChunkProcessed_early(made, chunk_data, start_offset, end_offset) ==
    /\ total_checksum' = Concat(total_checksum, chunk_data)
    /\ bytes_processed' = end_offset
    /\ reads' = Append(reads, [lo |-> start_offset, hi |-> end_offset])
    /\ IF ~made.ok
       THEN /\ pc' = "create_failed"
            /\ create_result' = Append(create_result, Err(made.err))
            /\ UNCHANGED <<plan_pos, chunk_index, capsule_data_list>>
       ELSE /\ capsule_data_list' = Append(capsule_data_list, made.v)
            /\ chunk_index' = chunk_index + 1
            /\ plan_pos' = plan_pos + 1
            /\ pc' = "write"
            /\ UNCHANGED create_result

\* the iteration of the chunk loop without bytes_processed += actual_read_size
ChunkProcessed_stuck(made, chunk_data, start_offset, end_offset) ==
    /\ total_checksum' = Concat(total_checksum, chunk_data)
    /\ bytes_processed' = bytes_processed
    /\ reads' = Append(reads, [lo |-> start_offset, hi |-> end_offset])
    /\ IF ~made.ok
       THEN /\ pc' = "create_failed"
            /\ create_result' = Append(create_result, Err(made.err))
            /\ UNCHANGED <<plan_pos, chunk_index, capsule_data_list>>
       ELSE /\ capsule_data_list' = Append(capsule_data_list, made.v)
            /\ chunk_index' = chunk_index + 1
            /\ plan_pos' = plan_pos + 1
            /\ pc' = IF plan_pos + 1 = Len(chunk_sizes) THEN "write" ELSE "chunks"
            /\ UNCHANGED create_result

\* what one iteration of the chunk loop leaves, given the chunk's CapsuleData
ChunkProcessed(made, chunk_data, start_offset, end_offset) ==
    /\ total_checksum' = Concat(total_checksum, chunk_data)
    /\ bytes_processed' = end_offset
    /\ reads' = Append(reads, [lo |-> start_offset, hi |-> end_offset])
    /\ IF ~made.ok
       THEN /\ pc' = "create_failed"
            /\ create_result' = Append(create_result, Err(made.err))
            /\ UNCHANGED <<plan_pos, chunk_index, capsule_data_list>>
       ELSE /\ capsule_data_list' = Append(capsule_data_list, made.v)
            /\ chunk_index' = chunk_index + 1
            /\ plan_pos' = plan_pos + 1
            /\ pc' = IF plan_pos + 1 = Len(chunk_sizes) THEN "write" ELSE "chunks"
            /\ UNCHANGED create_result

\* one iteration of the chunk loop, lines 720-799
ProcessChunk ==
    /\ pc = "chunks"
    /\ LET processor == StreamingCapsuleProcessor_new(encryption_key)
           target_chunk_size == chunk_sizes[plan_pos + 1]
           actual_read_size == Min(target_chunk_size, input.size - bytes_processed)
           start_offset == bytes_processed
           end_offset == start_offset + actual_read_size
           chunk_data == MmapSlice(input.kind, start_offset, end_offset)
       IN IF actual_read_size = 0
          THEN \* break
               /\ pc' = IF capsule_data_list = <<>> THEN "manifest" ELSE "write"
               /\ UNCHANGED <<plan_pos, chunk_index, bytes_processed, total_checksum,
                              capsule_data_list, reads, create_result>>
          ELSE ChunkProcessed(ProcessChunkData(processor, chunk_data,
                                               target_chunk_size, chunk_index),
                              chunk_data, start_offset, end_offset)
    /\ UNCHANGED <<input, encryption_key, run, chunk_sizes, capsules, fs, tampered>>
    /\ UNCHANGED extract_vars
    /\ UNCHANGED unit_vars

\* the id taken from a hasher that was fed nothing
final_id_unfed == Sha256Hex(<<>>)

\* the id of the set: the running SHA-256 finalized, lines 802-803
final_id == Sha256Hex(total_checksum)

\* one iteration of the writing loop, lines 806-823
WriteCapsule ==
    /\ pc = "write"
    /\ Len(capsules) < Len(capsule_data_list)
    /\ LET index == Len(capsules)
           capsule_data == capsule_data_list[index + 1]
           capsule == [index |-> index,
                       size |-> capsule_data.header.capsule_size,
                       hash |-> capsule_data.hash,
                       encrypted |-> IsSome(StreamingCapsuleProcessor_new(encryption_key)),
                       compressed |-> TRUE]
       IN /\ fs' = [fs EXCEPT ![run].capsule =
                       WriteFile(@, CapsuleFileName(final_id, index),
                                 CapsuleFile(to_bytes(capsule_data.header),
                                             capsule_data.data))]
          /\ capsules' = Append(capsules, capsule)
          /\ pc' = IF index + 1 = Len(capsule_data_list) THEN "manifest" ELSE "write"
    /\ UNCHANGED <<input, encryption_key, run, chunk_sizes, plan_pos, chunk_index,
                   bytes_processed, total_checksum, capsule_data_list, reads,
                   create_result, tampered>>
    /\ UNCHANGED extract_vars
    /\ UNCHANGED unit_vars

\* the CapsuleSet with capsule_sizes taken from the sizes the capsules got
BuildCapsuleSet_actual ==
    [id |-> final_id,
     capsules |-> capsules,
     metadata |->
        [original_size |-> input.size,
         capsule_count |-> chunk_index,
         capsule_sizes |-> [i \in 1..Len(capsules) |-> capsules[i].size],
         checksum |-> final_id,
         chunking_algorithm |-> "DIG_DETERMINISTIC_V1",
         consensus_version |-> "DIG_CAPSULE_V1",
         encryption_info |->
            IF IsSome(encryption_key) THEN Some(EncryptionInfo) ELSE None,
         compression_info |-> Some(CompressionInfo(input.size))]]

\* the CapsuleSet of a non-empty input, lines 826-855
BuildCapsuleSet ==
    [id |-> final_id,
     capsules |-> capsules,
     metadata |->
        [original_size |-> input.size,
         capsule_count |-> chunk_index,
         capsule_sizes |-> chunk_sizes,
         checksum |-> final_id,
         chunking_algorithm |-> "DIG_DETERMINISTIC_V1",
         consensus_version |-> "DIG_CAPSULE_V1",
         encryption_info |->
            IF IsSome(encryption_key) THEN Some(EncryptionInfo) ELSE None,
         compression_info |-> Some(CompressionInfo(input.size))]]

\* the manifest written and the set returned, lines 857-864
WriteManifest ==
    /\ pc = "manifest"
    /\ LET set == BuildCapsuleSet
       IN /\ fs' = [fs EXCEPT ![run].manifest = WriteFile(@, ManifestFileName(set.id), set)]
          /\ create_result' = Append(create_result, Ok(set))
    /\ pc' = "created"
    /\ UNCHANGED <<input, encryption_key, run, chunk_sizes, plan_pos, chunk_index,
                   bytes_processed, total_checksum, capsule_data_list, capsules,
                   reads, tampered>>
    /\ UNCHANGED extract_vars
    /\ UNCHANGED unit_vars

(***************************************************************************)
(* create on an empty input, lines 609-704                                 *)
(***************************************************************************)
\* the id of the empty input: hex::encode(Sha256::default().finalize())
empty_id == Sha256Hex(<<>>)

\* the capsule of the empty input written, lines 651-670, or the error returned
EmptyCapsuleMade(made, target_chunk_size, encrypted) ==
    IF ~made.ok
    THEN /\ pc' = "create_failed"
         /\ create_result' = Append(create_result, Err(made.err))
         /\ UNCHANGED <<fs, capsules>>
    ELSE /\ fs' = [fs EXCEPT ![run].capsule =
                      WriteFile(@, CapsuleFileName(empty_id, 0),
                                CapsuleFile(to_bytes(made.v.header), made.v.data))]
         /\ capsules' = <<[index |-> 0,
                           size |-> target_chunk_size,
                           hash |-> made.v.hash,
                           encrypted |-> encrypted,
                           compressed |-> TRUE]>>
         /\ pc' = "empty_manifest"
         /\ UNCHANGED create_result

\* the one capsule built and written, lines 611-670
EmptyCapsule ==
    /\ pc = "empty_capsule"
    /\ LET target_chunk_size == CAPSULE_SIZES[1]
           processor == StreamingCapsuleProcessor_new(encryption_key)
           encrypted_data == encrypt_stream(processor, <<>>, 0)
           compressed_data == compress_stream(encrypted_data)
       IN EmptyCapsuleMade(
              FrameCapsule(add_deterministic_padding(compressed_data,
                                                     BufLen(compressed_data),
                                                     target_chunk_size, 0),
                           0, target_chunk_size, IsSome(processor)),
              target_chunk_size, IsSome(processor))
    /\ UNCHANGED <<input, encryption_key, run, chunk_sizes, plan_pos, chunk_index,
                   bytes_processed, total_checksum, capsule_data_list, reads, tampered>>
    /\ UNCHANGED extract_vars
    /\ UNCHANGED unit_vars

\* the CapsuleSet of the empty input with the plan asked of
\* determine_chunk_sizes, which plans nothing for no bytes
BuildEmptyCapsuleSet_planned ==
    [id |-> empty_id,
     capsules |-> capsules,
     metadata |->
        [original_size |-> 0,
         capsule_count |-> 1,
         capsule_sizes |-> determine_chunk_sizes(0),
         checksum |-> empty_id,
         chunking_algorithm |-> "DIG_DETERMINISTIC_V1",
         consensus_version |-> "DIG_CAPSULE_V1",
         encryption_info |->
            IF IsSome(encryption_key) THEN Some(EncryptionInfo) ELSE None,
         compression_info |-> Some(CompressionInfo(0))]]

\* the CapsuleSet of the empty input, lines 672-694
BuildEmptyCapsuleSet ==
    [id |-> empty_id,
     capsules |-> capsules,
     metadata |->
        [original_size |-> 0,
         capsule_count |-> 1,
         capsule_sizes |-> <<CAPSULE_SIZES[1]>>,
         checksum |-> empty_id,
         chunking_algorithm |-> "DIG_DETERMINISTIC_V1",
         consensus_version |-> "DIG_CAPSULE_V1",
         encryption_info |->
            IF IsSome(encryption_key) THEN Some(EncryptionInfo) ELSE None,
         compression_info |-> Some(CompressionInfo(0))]]

\* the manifest written and the set returned, lines 696-703
EmptyManifest ==
    /\ pc = "empty_manifest"
    /\ LET set == BuildEmptyCapsuleSet
       IN /\ fs' = [fs EXCEPT ![run].manifest = WriteFile(@, ManifestFileName(set.id), set)]
          /\ create_result' = Append(create_result, Ok(set))
    /\ pc' = "created"
    /\ UNCHANGED <<input, encryption_key, run, chunk_sizes, plan_pos, chunk_index,
                   bytes_processed, total_checksum, capsule_data_list, capsules,
                   reads, tampered>>
    /\ UNCHANGED extract_vars
    /\ UNCHANGED unit_vars

\* create called again on the same input and passphrase, with another
\* temporary input file and another output directory
CreateAgain ==
    /\ pc = "created"
    /\ tampered = "none"
    /\ run < MaxRuns
    /\ run' = run + 1
    /\ pc' = "create"
    /\ UNCHANGED <<input, encryption_key, chunk_sizes, plan_pos, chunk_index,
                   bytes_processed, total_checksum, capsule_data_list, capsules,
                   reads, fs, create_result, tampered>>
    /\ UNCHANGED extract_vars
    /\ UNCHANGED unit_vars

(***************************************************************************)
(* A capsule header changed on disk between create and extract.            *)
(***************************************************************************)
\* a header with its checksum computed again, as CapsuleHeader::new ends
Resealed(h) == [h EXCEPT !.header_checksum = calculate_checksum_without_field(h)]

TamperedHeader(bytes, kind) ==
    LET h == from_bytes(bytes).v
    IN CASE kind = "flip" -> [bytes EXCEPT ![13] = XorByte(@, 1)]
         [] kind = "magic" -> [bytes EXCEPT ![1] = 100]
         [] kind = "version" -> to_bytes(Resealed([h EXCEPT !.version = 2]))
         [] kind = "size" -> to_bytes(Resealed([h EXCEPT !.capsule_size = 12345]))
         [] kind = "offset" -> to_bytes(Resealed([h EXCEPT !.data_offset = 45]))
         [] kind = "index" -> to_bytes(Resealed([h EXCEPT !.capsule_index = @ + 1]))

\* the directory of the first call is the one tampered with and extracted
TamperHeader ==
    /\ pc = "created"
    /\ run = 1
    /\ tampered = "none"
    /\ \E kind \in TamperKinds, e \in fs[run].capsule :
          /\ e.name.index = 0
          /\ tampered' = kind
          /\ fs' = [fs EXCEPT ![run].capsule =
                       WriteFile(@, e.name,
                                 [e.content EXCEPT !.header = TamperedHeader(@, kind)])]
    /\ UNCHANGED <<input, encryption_key, run, pc, chunk_sizes, plan_pos, chunk_index,
                   bytes_processed, total_checksum, capsule_data_list, capsules,
                   reads, create_result>>
    /\ UNCHANGED extract_vars
    /\ UNCHANGED unit_vars

(***************************************************************************)
(* extract_data_capsule_to_file_internal                                   *)
(***************************************************************************)
create_vars == <<input, encryption_key, run, chunk_sizes, plan_pos, chunk_index,
                 bytes_processed, total_checksum, capsule_data_list, capsules,
                 reads, fs, create_result, tampered>>

\* load_capsule_set_from_path on the output directory: a file whose name ends
\* in _metadata.json, parsed; then lines 900-919
ExtractBegin ==
    /\ pc = "created"
    /\ run = 1
    /\ \E key \in ExtractPassphrases, m \in fs[run].manifest :
          /\ decryption_key' = key
          /\ capsule_set' = Some(m.content)
          /\ pc' = IF m.content.metadata.capsule_count = 0 THEN "verify" ELSE "extract"
    /\ xi' = 0
    /\ output_file' = <<>>
    /\ xchecksum' = <<>>
    /\ last_header' = None
    /\ extract_result' = None
    /\ UNCHANGED create_vars
    /\ UNCHANGED unit_vars

\* the payload through remove_padding, decompress and decrypt, lines 933-960,
\* once the header decoded: <<what from_bytes returned, the data or the error>>
ReversePayload(processor, header, payload) ==
    IF ~header.ok THEN <<Some(header), Err(header.err)>>
    ELSE LET no_padding_data == remove_padding(payload)
             decompressed_data == decompress_stream(no_padding_data)
         IN IF ~decompressed_data.ok THEN <<Some(header), decompressed_data>>
            ELSE <<Some(header), decrypt_stream(processor, decompressed_data.v)>>

\* one capsule through the reverse pipeline (the body of the loop, lines
\* 922-960)
ExtractCapsuleData(processor, files, name) ==
    IF ~HasFile(files, name) THEN <<None, Err("IoError")>>
    ELSE
      LET capsule_file == ReadFile(files, name) IN
      IF Len(capsule_file.header) < CAPSULE_HEADER_SIZE THEN <<None, Err("IoError")>>
      ELSE ReversePayload(processor,
                          from_bytes(SubSeq(capsule_file.header, 1, CAPSULE_HEADER_SIZE)),
                          capsule_file.payload)

\* what one iteration of the capsule loop leaves, lines 962-965
CapsuleExtracted(got, capsule_count) ==
    /\ last_header' = got[1]
    /\ IF ~got[2].ok
       THEN /\ extract_result' = Some(Err(got[2].err))
            /\ pc' = "extracted"
            /\ UNCHANGED <<xi, output_file, xchecksum>>
       ELSE /\ xchecksum' = Concat(xchecksum, got[2].v)
            /\ output_file' = Concat(output_file, got[2].v)
            /\ xi' = xi + 1
            /\ pc' = IF xi + 1 = capsule_count THEN "verify" ELSE "extract"
            /\ UNCHANGED extract_result

\* one iteration of the capsule loop, lines 921-965
ExtractCapsule ==
    /\ pc = "extract"
    /\ CapsuleExtracted(
          ExtractCapsuleData(StreamingCapsuleProcessor_new(decryption_key),
                             fs[run].capsule,
                             CapsuleFileName(Unwrap(capsule_set).id, xi)),
          Unwrap(capsule_set).metadata.capsule_count)
    /\ UNCHANGED <<decryption_key, capsule_set>>
    /\ UNCHANGED create_vars
    /\ UNCHANGED unit_vars

\* the end of extract without the checksum comparison
ExtractVerify_unverified ==
    /\ pc = "verify"
    /\ extract_result' = Some(Ok(output_file))
    /\ pc' = "extracted"
    /\ UNCHANGED <<decryption_key, capsule_set, xi, output_file, xchecksum, last_header>>
    /\ UNCHANGED create_vars
    /\ UNCHANGED unit_vars

\* the final checksum comparison, lines 967-978
ExtractVerify ==
    /\ pc = "verify"
    /\ extract_result' =
          IF Sha256Hex(xchecksum) # Unwrap(capsule_set).metadata.checksum
          THEN Some(Err("ChecksumMismatch"))
          ELSE Some(Ok(output_file))
    /\ pc' = "extracted"
    /\ UNCHANGED <<decryption_key, capsule_set, xi, output_file, xchecksum, last_header>>
    /\ UNCHANGED create_vars
    /\ UNCHANGED unit_vars

(***************************************************************************)
(* reconstruct_file_from_capsules, called with the manifest of the output  *)
(* directory and that directory                                            *)
(***************************************************************************)
\* lines 1021-1033: the processor, the output file, the hasher, the sort
ReconstructBegin ==
    /\ pc = "created"
    /\ run = 1
    /\ \E key \in ExtractPassphrases, m \in fs[run].manifest :
          /\ decryption_key' = key
          /\ capsule_set' = Some(m.content)
          /\ pc' = IF m.content.capsules = <<>> THEN "reconstruct_verify"
                   ELSE "reconstruct"
    /\ xi' = 0
    /\ output_file' = <<>>
    /\ xchecksum' = <<>>
    /\ last_header' = None
    /\ extract_result' = None
    /\ UNCHANGED create_vars
    /\ UNCHANGED unit_vars

\* sorted_capsules[k - 1]: the capsule with the k-th smallest index
SortedCapsule(set_capsules, k) ==
    LET among == {set_capsules[j] : j \in 1..Len(set_capsules)}
    IN CHOOSE c \in among : Cardinality({d \in among : d.index < c.index}) = k - 1

\* the payload after the seek past the header, through remove_padding,
\* decompress and decrypt, lines 1042-1072
ReconstructPayload(processor, payload) ==
    LET no_padding_data == remove_padding(payload)
        decompressed_data == decompress_stream(no_padding_data)
    IN IF ~decompressed_data.ok THEN decompressed_data
       ELSE decrypt_stream(processor, decompressed_data.v)

\* one capsule file opened and reversed, lines 1037-1072
ReconstructCapsuleData(processor, files, name) ==
    IF ~HasFile(files, name) THEN Err("IoError")
    ELSE ReconstructPayload(processor, ReadFile(files, name).payload)

\* what one iteration of the capsule loop leaves, lines 1074-1076
CapsuleReconstructed(got, count) ==
    IF ~got.ok
    THEN /\ extract_result' = Some(Err(got.err))
         /\ pc' = "reconstructed"
         /\ UNCHANGED <<xi, output_file, xchecksum>>
    ELSE /\ xchecksum' = Concat(xchecksum, got.v)
         /\ output_file' = Concat(output_file, got.v)
         /\ xi' = xi + 1
         /\ pc' = IF xi + 1 = count THEN "reconstruct_verify" ELSE "reconstruct"
         /\ UNCHANGED extract_result

\* one iteration of the capsule loop, lines 1036-1077
ReconstructCapsule ==
    /\ pc = "reconstruct"
    /\ CapsuleReconstructed(
          ReconstructCapsuleData(
             StreamingCapsuleProcessor_new(decryption_key),
             fs[run].capsule,
             CapsuleFileName(Unwrap(capsule_set).id,
                             SortedCapsule(Unwrap(capsule_set).capsules, xi + 1).index)),
          Len(Unwrap(capsule_set).capsules))
    /\ UNCHANGED <<decryption_key, capsule_set, last_header>>
    /\ UNCHANGED create_vars
    /\ UNCHANGED unit_vars

\* the final checksum comparison, lines 1079-1090; Ok(()) is Ok of nothing
ReconstructVerify ==
    /\ pc = "reconstruct_verify"
    /\ extract_result' =
          IF Sha256Hex(xchecksum) # Unwrap(capsule_set).metadata.checksum
          THEN Some(Err("Checksum mismatch"))
          ELSE Some(Ok(<<>>))
    /\ pc' = "reconstructed"
    /\ UNCHANGED <<decryption_key, capsule_set, xi, output_file, xchecksum, last_header>>
    /\ UNCHANGED create_vars
    /\ UNCHANGED unit_vars

Next ==
    \/ CreateBegin
    \/ ProcessChunk
    \/ WriteCapsule
    \/ WriteManifest
    \/ EmptyCapsule
    \/ EmptyManifest
    \/ CreateAgain
    \/ TamperHeader
    \/ ExtractBegin
    \/ ExtractCapsule
    \/ ExtractVerify
    \/ ReconstructBegin
    \/ ReconstructCapsule
    \/ ReconstructVerify

Spec == Init /\ [][Next]_vars

(***************************************************************************)
(* Single calls of the functions of the library.  The state of create and  *)
(* extract stays as it is before any call of them; `call` holds the name   *)
(* and the arguments of the one call made, `ret` what it returned.         *)
(***************************************************************************)
main_vars == <<input, encryption_key, run, pc, chunk_sizes, plan_pos, chunk_index,
               bytes_processed, total_checksum, capsule_data_list, capsules,
               reads, fs, create_result, tampered, decryption_key, capsule_set,
               xi, output_file, xchecksum, last_header, extract_result>>

UnitInit ==
    /\ input = [size |-> 0, kind |-> "zeros"]
    /\ encryption_key = None
    /\ run = 1
    /\ pc = "unit"
    /\ chunk_sizes = <<>>
    /\ plan_pos = 0
    /\ chunk_index = 0
    /\ bytes_processed = 0
    /\ total_checksum = <<>>
    /\ capsule_data_list = <<>>
    /\ capsules = <<>>
    /\ reads = <<>>
    /\ fs = [d \in 1..MaxRuns |-> EmptyDir]
    /\ create_result = <<>>
    /\ tampered = "none"
    /\ decryption_key = None
    /\ capsule_set = None
    /\ xi = 0
    /\ output_file = <<>>
    /\ xchecksum = <<>>
    /\ last_header = None
    /\ extract_result = None
    /\ call = None
    /\ ret = None

\* the arguments CapsuleHeader::new is called with
HeaderIndexes == {0, 258}
HeaderCapsuleSizes == {CAPSULE_SIZES[1], CAPSULE_SIZES[NUM_SIZES]}
HeaderDataSizes == {CAPSULE_SIZES[1]}

\* the offsets of the 40 header bytes outside header_checksum
CheckedOffsets == (0..35) \cup (40..43)

\* bytes with bit `bit` of the byte at 0-based offset `at` inverted
FlipBit(bytes, at, bit) ==
    [bytes EXCEPT ![at + 1] = XorByte(@, <<1, 2, 4, 8, 16, 32, 64, 128>>[bit + 1])]

\* CapsuleHeader::new, then to_bytes
CallHeaderNew ==
    /\ call = None
    /\ \E capsule_index \in HeaderIndexes, capsule_size \in HeaderCapsuleSizes,
          data_size \in HeaderDataSizes, encrypted \in BOOLEAN, compressed \in BOOLEAN :
          call' = Some([fn |-> "CapsuleHeader::new",
                        header |-> CapsuleHeader_new(capsule_index, capsule_size,
                                                     data_size, encrypted, compressed)])
    /\ ret' = None
    /\ UNCHANGED main_vars

\* from_bytes on the encoded header, or on it with one bit inverted
\* (at = -1: no bit inverted)
HeaderDecoded(header, bytes, at, bit) ==
    /\ call' = Some([fn |-> "CapsuleHeader::from_bytes", header |-> header,
                     encoded |-> to_bytes(header), bytes |-> bytes,
                     at |-> at, bit |-> bit])
    /\ ret' = Some(from_bytes(bytes))

CallFromBytes ==
    /\ IsSome(call)
    /\ Unwrap(call).fn = "CapsuleHeader::new"
    /\ \E at \in CheckedOffsets \cup {-1}, bit \in 0..7 :
          /\ (at = -1 => bit = 0)
          /\ HeaderDecoded(Unwrap(call).header,
                           IF at = -1 THEN to_bytes(Unwrap(call).header)
                           ELSE FlipBit(to_bytes(Unwrap(call).header), at, bit),
                           at, bit)
    /\ UNCHANGED main_vars

\* validate_capsule_file_internal accepting whatever from_bytes accepts
validate_capsule_file_unchecked(file) ==
    IF ~IsSome(file) THEN Err("InvalidFormat")
    ELSE IF Len(Unwrap(file)) < CAPSULE_HEADER_SIZE THEN Err("InvalidFormat")
    ELSE from_bytes(SubSeq(Unwrap(file), 1, CAPSULE_HEADER_SIZE))

\* the checks validate_capsule_file_internal makes on a decoded header
ValidatedHeader(decoded) ==
    IF ~decoded.ok THEN decoded
    ELSE IF decoded.v.version # CAPSULE_VERSION THEN Err("ConsensusViolation")
    ELSE IF decoded.v.capsule_size \notin LadderSet THEN Err("ConsensusViolation")
    ELSE IF decoded.v.data_offset # CAPSULE_HEADER_SIZE THEN Err("InvalidFormat")
    ELSE decoded

\* validate_capsule_file_internal on a path: file is None when nothing is at
\* the path, else Some(the bytes of the file)
validate_capsule_file_internal(file) ==
    IF ~IsSome(file) THEN Err("InvalidFormat")
    ELSE IF Len(Unwrap(file)) < CAPSULE_HEADER_SIZE THEN Err("InvalidFormat")
    ELSE ValidatedHeader(from_bytes(SubSeq(Unwrap(file), 1, CAPSULE_HEADER_SIZE)))

\* hex::encode(bytes)
HexEncode(bytes) == [hex |-> bytes]
\* format!("{:08x}", u32): the eight digits, most significant first, of the
\* word kept as its little-endian bytes
Hex08(le) == [hex |-> <<le[4], le[3], le[2], le[1]>>]

\* flags & mask != 0 for a one-bit mask
FlagSet(flags, mask) == (flags \div mask) % 2 = 1

CapsuleFileInfo(header) ==
    [magic |-> HexEncode(header.magic),
     version |-> header.version,
     capsule_index |-> header.capsule_index,
     capsule_size |-> header.capsule_size,
     data_size |-> header.data_size,
     is_encrypted |-> FlagSet(header.flags, FLAG_ENCRYPTED),
     is_compressed |-> FlagSet(header.flags, FLAG_COMPRESSED),
     checksum |-> Hex08(header.header_checksum)]

\* is_valid_capsule_file, given what validate_capsule_file_internal returned
is_valid_capsule_file(validated) == Ok(validated.ok)

\* get_capsule_file_info, given what validate_capsule_file_internal returned
get_capsule_file_info(validated) ==
    IF validated.ok THEN Ok(Some(CapsuleFileInfo(validated.v))) ELSE Ok(None)

\* what is at the path: nothing, an empty file, the encoded header cut one
\* byte short, the encoded header alone or followed by payload bytes, or the
\* header changed on disk and followed by payload bytes
FileShapes == {"missing", "empty", "short", "header", "capsule"} \cup TamperKinds

FileOfShape(bytes, shape) ==
    CASE shape = "missing" -> None
      [] shape = "empty" -> Some(<<>>)
      [] shape = "short" -> Some(SubSeq(bytes, 1, CAPSULE_HEADER_SIZE - 1))
      [] shape = "header" -> Some(bytes)
      [] shape = "capsule" -> Some(bytes \o <<31, 139, 8, 0>>)
      [] OTHER -> Some(TamperedHeader(bytes, shape) \o <<31, 139, 8, 0>>)

FileValidated(fn, file, validated) ==
    /\ call' = Some([fn |-> fn, file |-> file])
    /\ ret' = Some(IF fn = "is_valid_capsule_file"
                   THEN is_valid_capsule_file(validated)
                   ELSE get_capsule_file_info(validated))

FileCalled(fn, file) == FileValidated(fn, file, validate_capsule_file_internal(file))

\* is_valid_capsule_file(path) or get_capsule_file_info(path)
CallOnFile ==
    /\ IsSome(call)
    /\ Unwrap(call).fn = "CapsuleHeader::new"
    /\ \E fn \in {"is_valid_capsule_file", "get_capsule_file_info"},
          shape \in FileShapes :
          FileCalled(fn, FileOfShape(to_bytes(Unwrap(call).header), shape))
    /\ UNCHANGED main_vars

\* lengths of processed data within SizeWindow of the lengths at which a
\* ladder size stops holding the data with 5 percent or with 1 percent of
\* padding, or stops holding the data at all; and small and middle lengths
SizeWindow == 110
ProcessedSizes ==
    {0, 20, 51, 102400, 5 * MB}
    \cup UNION {{(CAPSULE_SIZES[j] \div 21) * 20 + d,
                 (CAPSULE_SIZES[j] \div 101) * 100 + d,
                 CAPSULE_SIZES[j] + d} : j \in 1..NUM_SIZES, d \in (0 - SizeWindow)..SizeWindow}

\* find_optimal_capsule_size(processed_data_size, target_capsule_size)
CallFindOptimal ==
    /\ call = None
    /\ \E processed_data_size \in ProcessedSizes, target_capsule_size \in LadderSet :
          /\ call' = Some([fn |-> "find_optimal_capsule_size",
                           processed_data_size |-> processed_data_size,
                           target_capsule_size |-> target_capsule_size])
          /\ ret' = Some(find_optimal_capsule_size(processed_data_size,
                                                   target_capsule_size))
    /\ UNCHANGED main_vars

\* a buffer holding a gzip stream of length D, as compress_stream leaves it
StreamOfLen(D) ==
    [gz |-> <<>>, mtime |-> 0, D |-> D, fill |-> -1, footer |-> 0, seed |-> 0,
     take |-> D]

\* lengths of the data from PadWindow below a target size to just above it,
\* and the shortest gzip streams
PadWindow == 60
CurrentSizes(target_size) == {20, 51} \cup ((target_size - PadWindow)..(target_size + 1))

\* add_deterministic_padding(data, data.len(), target_size, chunk_index)
CallAddPadding ==
    /\ call = None
    /\ \E target_size \in LadderSet, index \in {0, 1} :
          \E current_size \in CurrentSizes(target_size) :
             /\ call' = Some([fn |-> "add_deterministic_padding",
                              data |-> StreamOfLen(current_size),
                              current_size |-> current_size,
                              target_size |-> target_size,
                              index |-> index])
             /\ ret' = Some(add_deterministic_padding(StreamOfLen(current_size),
                                                      current_size, target_size, index))
    /\ UNCHANGED main_vars

\* payloads given byte by byte: a run of zero bytes, then up to MaxTail bytes
\* that are 00 or FF
MaxTail == 12
ZeroRuns == {0, 254, 255}
Zeros(n) == [j \in 1..n |-> 0]
Payloads ==
    {Zeros(z) \o tail : z \in ZeroRuns,
                        tail \in UNION {[1..n -> {0, 255}] : n \in 0..MaxTail}}

\* remove_padding(reader, writer): the bytes read and the bytes written
CallRemovePadding ==
    /\ call = None
    /\ \E payload \in Payloads :
          /\ call' = Some([fn |-> "remove_padding", data |-> [bytes |-> payload]])
          /\ ret' = Some(remove_padding([bytes |-> payload]))
    /\ UNCHANGED main_vars

UnitNext ==
    \/ CallRemovePadding
    \/ CallAddPadding
    \/ CallFindOptimal
    \/ CallHeaderNew
    \/ CallFromBytes
    \/ CallOnFile

SpecUnit == UnitInit /\ [][UnitNext]_vars

(***************************************************************************)
(* Properties.                                                             *)
(***************************************************************************)
\* the whole input B
InputBytes == MmapSlice(input.kind, 0, input.size)

\* the capsule_size and data_size fields of serialized header bytes
HeaderCapsuleSize(header_bytes) == from_le_bytes(Slice(header_bytes, 16, 20))
HeaderDataSize(header_bytes) == from_le_bytes(Slice(header_bytes, 20, 24))
HeaderCapsuleIndex(header_bytes) == from_le_bytes(Slice(header_bytes, 12, 16))

\* n entries s
RECURSIVE Rep(_, _)
Rep(s, n) == IF n = 0 THEN <<>> ELSE <<s>> \o Rep(s, n - 1)

\* what the ladder sizes above CAPSULE_SIZES[j] leave of total
RECURSIVE LeftBy(_, _)
LeftBy(j, total) ==
    IF j = NUM_SIZES THEN total ELSE LeftBy(j + 1, total) % CAPSULE_SIZES[j + 1]

\* the entries of size CAPSULE_SIZES[j], and those of all sizes from j down
RECURSIVE GreedyFrom(_, _)
GreedyFrom(j, total) ==
    IF j = 0 THEN <<>>
    ELSE Rep(CAPSULE_SIZES[j], LeftBy(j, total) \div CAPSULE_SIZES[j])
         \o GreedyFrom(j - 1, total)

\* the greedy largest-first decomposition of total over the ladder, with one
\* more smallest entry for a remainder
GreedyPlan(total) ==
    GreedyFrom(NUM_SIZES, total)
    \o (IF LeftBy(1, total) % CAPSULE_SIZES[1] > 0 THEN <<CAPSULE_SIZES[1]>> ELSE <<>>)

\* C1: extract with the passphrase of create, on the capsule set create wrote
\* for the input B and left untouched, returns Ok with exactly B.
C1_RoundTrip ==
    (pc = "extracted" /\ tampered = "none" /\ decryption_key = encryption_key)
        => extract_result = Some(Ok(InputBytes))

C4_EmptyInput ==
    (/\ input.size = 0
     /\ tampered = "none"
     /\ pc \in {"created", "extract", "verify", "extracted"}) =>
        LET set == create_result[run].v
        IN /\ create_result[run].ok
           /\ Cardinality(fs[run].capsule) = 1
           /\ \A e \in fs[run].capsule :
                 /\ e.name = CapsuleFileName(set.id, 0)
                 /\ HeaderCapsuleIndex(e.content.header) = 0
                 /\ HeaderCapsuleSize(e.content.header) = 256 * KB
           /\ Len(set.capsules) = 1
           /\ set.capsules[1].index = 0
           /\ set.capsules[1].size = 256 * KB
           /\ set.metadata.capsule_sizes = <<262144>>
           /\ set.metadata.capsule_count = 1
           /\ set.metadata.original_size = 0
           /\ fs[run].manifest = {[name |-> ManifestFileName(set.id), content |-> set]}
           /\ (pc = "extracted" /\ decryption_key = encryption_key
                  => extract_result = Some(Ok(<<>>)))

C4_Witness ==
    /\ input.size = 0
    /\ pc = "extracted"
    /\ tampered = "none"
    /\ IsSome(encryption_key)
    /\ decryption_key = encryption_key
    /\ extract_result = Some(Ok(<<>>))

\* C5: every capsule file create writes for a non-empty input is as long as
\* the capsule_size of its header says: its payload is capsule_size - 44
\* bytes, and the header's data_size is at most capsule_size - 44.
C5_FileLength ==
    (input.size > 0 /\ tampered = "none") =>
        \A e \in fs[run].capsule :
            /\ FileLen(e.content) = HeaderCapsuleSize(e.content.header)
            /\ BufLen(e.content.payload)
                  = HeaderCapsuleSize(e.content.header) - CAPSULE_HEADER_SIZE
            /\ HeaderDataSize(e.content.header)
                  <= HeaderCapsuleSize(e.content.header) - CAPSULE_HEADER_SIZE

\* a decoded header that passed its CRC check and holds a ladder size
HeaderInLadder(decoded) == decoded.ok /\ decoded.v.capsule_size \in LadderSet

\* C6: after a successful create every capsule.size of the manifest and the
\* capsule_size of every written header is one of the five ladder values,
\* whatever the length of the compressed chunk, and every written header
\* passes its CRC32 check.
C6_LadderAndCrc ==
    (pc = "created" /\ tampered = "none" /\ create_result[run].ok) =>
        /\ \A i \in 1..Len(create_result[run].v.capsules) :
              create_result[run].v.capsules[i].size
                 \in {262144, 1048576, 10485760, 104857600, 1048576000}
        /\ \A e \in fs[run].capsule :
              /\ HeaderCapsuleSize(e.content.header)
                    \in {262144, 1048576, 10485760, 104857600, 1048576000}
              /\ HeaderInLadder(from_bytes(e.content.header))

C6_Witness ==
    /\ pc = "created"
    /\ tampered = "none"
    /\ create_result[run].ok
    /\ \E e \in fs[run].capsule :
          /\ e.content.payload.D > CAPSULE_SIZES[NUM_SIZES]
          /\ HeaderCapsuleSize(e.content.header) = CAPSULE_SIZES[NUM_SIZES]
    /\ \E e \in fs[run].capsule :
          e.content.payload.D < HeaderCapsuleSize(e.content.header) \div 2

RECURSIVE SumOfReads(_)
SumOfReads(rs) ==
    IF rs = <<>> THEN 0 ELSE (rs[1].hi - rs[1].lo) + SumOfReads(Tail(rs))

\* C7: the byte ranges create reads for the chunks are consecutive, non-empty
\* and non-overlapping, chunk i reads min(plan[i], bytes not yet read) bytes,
\* and when the loop has ended the reads sum to original_size, every planned
\* chunk was read and the number of capsules is the length of the plan.
C7_ChunkReads ==
    (input.size > 0 /\ pc # "create") =>
        /\ Len(reads) <= Len(chunk_sizes)
        /\ \A k \in 1..Len(reads) :
              /\ reads[k].lo = (IF k = 1 THEN 0 ELSE reads[k - 1].hi)
              /\ reads[k].hi > reads[k].lo
              /\ reads[k].hi - reads[k].lo
                    = Min(chunk_sizes[k], input.size - reads[k].lo)
        /\ (pc \notin {"chunks", "create_failed"} =>
              /\ SumOfReads(reads) = input.size
              /\ Len(reads) = Len(chunk_sizes)
              /\ Len(capsule_data_list) = Len(chunk_sizes))
        /\ (pc \in {"created", "extract", "verify", "extracted"} =>
              /\ Cardinality(fs[run].capsule) = Len(chunk_sizes)
              /\ create_result[run].v.metadata.original_size = SumOfReads(reads)
              /\ create_result[run].v.metadata.capsule_count = Len(chunk_sizes)
              /\ Len(create_result[run].v.capsules) = Len(chunk_sizes))

C7_Witness ==
    /\ pc = "write"
    /\ Len(reads) >= 3
    /\ reads[Len(reads)].hi - reads[Len(reads)].lo < chunk_sizes[Len(reads)]
    /\ reads[Len(reads)].hi = input.size

\* C8: the manifest create returns and writes has id = hex SHA-256 of all of
\* the input, metadata.checksum = id, and every capsule file name and the
\* manifest file name start with the first 16 hex characters of that id.
C8_IdIsHashOfInput ==
    pc = "created" =>
        LET set == create_result[run].v
        IN /\ create_result[run].ok
           /\ set.id = Sha256Hex(InputBytes)
           /\ set.metadata.checksum = set.id
           /\ fs[run].manifest =
                 {[name |-> [prefix |-> Prefix16(Sha256Hex(InputBytes))],
                   content |-> set]}
           /\ fs[run].capsule # {}
           /\ \A e \in fs[run].capsule :
                 e.name.prefix = Prefix16(Sha256Hex(InputBytes))

C8_Witness ==
    /\ pc = "created"
    /\ Len(chunk_sizes) >= 3
    /\ input.size > 0
    /\ create_result[run].v.id = Sha256Hex(<<Raw(input.kind, 0, input.size)>>)
    /\ \E e \in fs[run].capsule :
          e.name = [prefix |-> Prefix16(create_result[run].v.id), index |-> 2]

\* C9: in the manifest of create, metadata.capsule_sizes[i] is the planned
\* size T_i of the chunking law, while capsules[i].size and the header
\* capsule_size of file i are the size the upgrade policy chose for the
\* compressed chunk; an upgraded chunk leaves capsule_sizes[i] = T_i.
C9_PlannedAndChosenSizes ==
    (pc = "created" /\ tampered = "none") =>
        LET set == create_result[run].v
            plan == IF input.size = 0 THEN <<CAPSULE_SIZES[1]>>
                    ELSE GreedyPlan(input.size)
        IN /\ set.metadata.capsule_sizes = plan
           /\ Len(set.capsules) = Len(plan)
           /\ \A i \in 1..Len(plan) :
                 /\ set.capsules[i].size =
                       find_optimal_capsule_size(
                          ReadFile(fs[run].capsule,
                                   CapsuleFileName(set.id, i - 1)).payload.D,
                          plan[i])
                 /\ HeaderCapsuleSize(
                       ReadFile(fs[run].capsule,
                                CapsuleFileName(set.id, i - 1)).header)
                       = set.capsules[i].size

C9_Witness ==
    /\ pc = "created"
    /\ tampered = "none"
    /\ \E i \in 1..Len(capsules) :
          /\ create_result[run].v.capsules[i].size
                # create_result[run].v.metadata.capsule_sizes[i]
          /\ create_result[run].v.metadata.capsule_sizes[i] = chunk_sizes[i]
    /\ \E i \in 1..Len(capsules) :
          create_result[run].v.capsules[i].size
             = create_result[run].v.metadata.capsule_sizes[i]

\* C10: CapsuleHeader::from_bytes, as the reverse pipeline uses it, returns
\* InvalidFormat or ChecksumMismatch for every input that breaks one of:
\* length >= 44, magic = DIGCAP01, CRC32 = header_checksum, version = 1,
\* capsule_size in the ladder, data_offset = 44; a header it returns breaks
\* none of them.
C10_FromBytesValidates ==
    IsSome(last_header) =>
        IF Unwrap(last_header).ok
        THEN /\ Unwrap(last_header).v.magic = CAPSULE_MAGIC
             /\ Unwrap(last_header).v.version = CAPSULE_VERSION
             /\ Unwrap(last_header).v.capsule_size \in LadderSet
             /\ Unwrap(last_header).v.data_offset = CAPSULE_HEADER_SIZE
        ELSE Unwrap(last_header).err \in {"InvalidFormat", "ChecksumMismatch"}

\* C11: for every header h built by CapsuleHeader::new, to_bytes(h) is 44
\* bytes in the order magic, version, capsule_index, capsule_size, data_size,
\* flags, reserved, header_checksum, data_offset; from_bytes(to_bytes(h))
\* returns Ok with all nine fields equal to h; and with any single bit of the
\* 40 bytes outside header_checksum inverted from_bytes fails: with
\* InvalidFormat when the bit is in the magic, whose comparison comes first,
\* and with ChecksumMismatch when it is in any other field.
C11_HeaderCodec ==
    (IsSome(call) /\ Unwrap(call).fn = "CapsuleHeader::from_bytes") =>
        LET c == Unwrap(call)
        IN /\ Len(c.encoded) = 44
           /\ Slice(c.encoded, 0, 8) = c.header.magic
           /\ Slice(c.encoded, 8, 12) = to_le_bytes(c.header.version)
           /\ Slice(c.encoded, 12, 16) = to_le_bytes(c.header.capsule_index)
           /\ Slice(c.encoded, 16, 20) = to_le_bytes(c.header.capsule_size)
           /\ Slice(c.encoded, 20, 24) = to_le_bytes(c.header.data_size)
           /\ Slice(c.encoded, 24, 28) = to_le_bytes(c.header.flags)
           /\ Slice(c.encoded, 28, 36) = c.header.reserved
           /\ Slice(c.encoded, 36, 40) = c.header.header_checksum
           /\ Slice(c.encoded, 40, 44) = to_le_bytes(c.header.data_offset)
           /\ (c.at = -1 => ret = Some(Ok(c.header)))
           /\ (c.at \in 0..7 => ret = Some(Err("InvalidFormat")))
           /\ (c.at >= 8 => ret = Some(Err("ChecksumMismatch")))

C11_Witness ==
    /\ IsSome(call)
    /\ Unwrap(call).fn = "CapsuleHeader::from_bytes"
    /\ Unwrap(call).at = 19
    /\ Unwrap(call).bit = 7
    /\ Unwrap(call).header.capsule_index = 258
    /\ ret = Some(Err("ChecksumMismatch"))

\* C11 as stated: every single inverted bit outside header_checksum makes
\* from_bytes fail with a CRC mismatch.
C11_EveryFlipIsChecksumMismatch ==
    (/\ IsSome(call)
     /\ Unwrap(call).fn = "CapsuleHeader::from_bytes"
     /\ Unwrap(call).at >= 0) => ret = Some(Err("ChecksumMismatch"))

\* the conditions on a file: it exists, has at least 44 bytes, and its first
\* 44 bytes have the magic, a matching CRC32, version 1, a capsule_size of
\* the ladder and data_offset 44
IsCapsuleFile(file) ==
    /\ IsSome(file)
    /\ Len(Unwrap(file)) >= 44
    /\ Slice(Unwrap(file), 0, 8) = <<68, 73, 71, 67, 65, 80, 48, 49>>
    /\ Slice(Unwrap(file), 8, 12) = <<1, 0, 0, 0>>
    /\ HeaderCapsuleSize(Unwrap(file))
          \in {262144, 1048576, 10485760, 104857600, 1048576000}
    /\ Slice(Unwrap(file), 40, 44) = <<44, 0, 0, 0>>
    /\ crc32_le(Slice(Unwrap(file), 0, 36) \o Slice(Unwrap(file), 40, 44))
          = Slice(Unwrap(file), 36, 40)

FileCallAgrees(fn, file, valid) ==
    /\ ret # None
    /\ Unwrap(ret).ok
    /\ (fn = "is_valid_capsule_file" => Unwrap(ret).v = valid)
    /\ (fn = "get_capsule_file_info" =>
          /\ IsSome(Unwrap(ret).v) = valid
          /\ (valid =>
                LET info == Unwrap(Unwrap(ret).v)
                    bytes == Unwrap(file)
                IN /\ info.magic = HexEncode(Slice(bytes, 0, 8))
                   /\ info.version = 1
                   /\ info.capsule_index = HeaderCapsuleIndex(bytes)
                   /\ info.capsule_size = HeaderCapsuleSize(bytes)
                   /\ info.data_size = HeaderDataSize(bytes)
                   /\ info.is_encrypted = (bytes[25] % 2 = 1)
                   /\ info.is_compressed = ((bytes[25] \div 2) % 2 = 1)
                   /\ info.checksum.hex = <<bytes[40], bytes[39], bytes[38], bytes[37]>>))

\* C12: is_valid_capsule_file never returns an error and returns true iff the
\* file exists, has at least 44 bytes and its first 44 bytes have the magic,
\* a matching CRC32, version 1, a ladder capsule_size and data_offset 44;
\* get_capsule_file_info returns Some exactly then, with the decoded fields.
C12_ValidCapsuleFile ==
    (/\ IsSome(call)
     /\ Unwrap(call).fn \in {"is_valid_capsule_file", "get_capsule_file_info"}) =>
        FileCallAgrees(Unwrap(call).fn, Unwrap(call).file,
                       IsCapsuleFile(Unwrap(call).file))

C12_Witness ==
    /\ IsSome(call)
    /\ Unwrap(call).fn = "get_capsule_file_info"
    /\ IsSome(Unwrap(call).file)
    /\ Len(Unwrap(call).file[1]) > 44
    /\ IsSome(ret)
    /\ IsSome(Unwrap(ret).v)
    /\ Unwrap(Unwrap(ret).v).capsule_index = 258
    /\ Unwrap(Unwrap(ret).v).is_encrypted

\* the loop over the capsules of the loaded manifest has ended
ExtractLoopDone == xi = Unwrap(capsule_set).metadata.capsule_count
ReconstructLoopDone == xi = Len(Unwrap(capsule_set).capsules)

\* C13: extraction returns Ok only if the SHA-256 of all the bytes it wrote
\* to the output, in capsule index order, equals the checksum of the
\* manifest; when the two differ it returns the checksum-mismatch error, and
\* the output file still holds every byte written.
C13_ChecksumVerified ==
    /\ (pc = "extracted" /\ Unwrap(extract_result).ok) =>
          /\ ExtractLoopDone
          /\ Sha256Hex(output_file) = Unwrap(capsule_set).metadata.checksum
          /\ Unwrap(extract_result).v = output_file
    /\ (pc = "extracted" /\ ExtractLoopDone
        /\ Sha256Hex(output_file) # Unwrap(capsule_set).metadata.checksum) =>
          /\ extract_result = Some(Err("ChecksumMismatch"))
          /\ output_file = xchecksum
    /\ (pc = "reconstructed" /\ Unwrap(extract_result).ok) =>
          /\ ReconstructLoopDone
          /\ Sha256Hex(output_file) = Unwrap(capsule_set).metadata.checksum
    /\ (pc = "reconstructed" /\ ReconstructLoopDone
        /\ Sha256Hex(output_file) # Unwrap(capsule_set).metadata.checksum) =>
          /\ extract_result = Some(Err("Checksum mismatch"))
          /\ output_file = xchecksum

C13_Witness ==
    /\ pc = "extracted"
    /\ ExtractLoopDone
    /\ xi >= 2
    /\ output_file # <<>>
    /\ Sha256Hex(output_file) # Unwrap(capsule_set).metadata.checksum
    /\ extract_result = Some(Err("ChecksumMismatch"))

\* C14: for a capsule set created with passphrase P, extraction with another
\* passphrase fails with DecryptionFailed at the first capsule, extraction
\* with P returns the original bytes, and the capsule count is that of the
\* unencrypted set of the same input (the length of the plan).
C14_WrongPassphrase ==
    (/\ pc = "extracted"
     /\ tampered = "none"
     /\ IsSome(encryption_key)
     /\ IsSome(decryption_key)) =>
        /\ Unwrap(capsule_set).metadata.capsule_count
              = (IF input.size = 0 THEN 1 ELSE Len(GreedyPlan(input.size)))
        /\ (decryption_key # encryption_key =>
              /\ extract_result = Some(Err("DecryptionFailed"))
              /\ xi = 0)
        /\ (decryption_key = encryption_key =>
              extract_result = Some(Ok(InputBytes)))

\* the capsule files of the set extracted were all padded, or hold no
\* FF FF FF FF in their gzip stream
AllPaddedOrMarkerFree ==
    \A e \in fs[run].capsule :
        e.content.payload.fill >= 0 \/ GzipMarkers(e.content.payload.gz) = {}
C14_Scope == AllPaddedOrMarkerFree => C14_WrongPassphrase

\* C15: extract and reconstruct_file_from_capsules decode the header of each
\* capsule file before using its payload: with one byte of a capsule file's
\* header changed, the operation, called with the passphrase of create, ends
\* with ChecksumMismatch or InvalidFormat and not with Ok.
C15_HeaderDecodedFirst ==
    (/\ pc \in {"extracted", "reconstructed"}
     /\ tampered \in {"flip", "magic"}
     /\ decryption_key = encryption_key) =>
        /\ ~Unwrap(extract_result).ok
        /\ Unwrap(extract_result).err \in {"ChecksumMismatch", "InvalidFormat"}

\* C16: create makes no capsule file before every chunk has been read, hashed
\* and processed, so a create that failed on a chunk has written none; the
\* capsule files carry the prefix of the final id and are written one at a
\* time in ascending index.
C16_WriteAfterFinalId ==
    /\ pc \in {"chunks", "empty_capsule", "create_failed"} =>
          /\ fs[run].capsule = {}
          /\ fs[run].manifest = {}
    /\ pc = "create_failed" => ~create_result[run].ok
    /\ pc = "write" =>
          /\ plan_pos = Len(chunk_sizes)
          /\ bytes_processed = input.size
          /\ total_checksum = InputBytes
          /\ Len(capsule_data_list) = Len(chunk_sizes)
          /\ Cardinality(fs[run].capsule) = Len(capsules)
          /\ {e.name : e \in fs[run].capsule}
                = {[prefix |-> Prefix16(Sha256Hex(InputBytes)), index |-> i] :
                      i \in 0..(Len(capsules) - 1)}

C16_Witness ==
    /\ pc = "create_failed"
    /\ create_result[run] = Err("ConsensusViolation")
    /\ Len(chunk_sizes) >= 2
    /\ Len(reads) = 1
    /\ fs[run].capsule = {}

\* D + 8 + pad <= T
Fits(D, T, pad) == D + 8 + pad <= T

\* the size the upgrade policy names for compressed length D and planned T
UpgradePolicy(D, T) ==
    IF Fits(D, T, D \div 20) THEN T
    ELSE IF Fits(D, T, IF D \div 100 >= 1024 THEN D \div 100 ELSE 1024) THEN T
    ELSE IF \E U \in LadderSet : U > T /\ Fits(D, U, D \div 20)
         THEN CHOOSE U \in LadderSet :
                 /\ U > T /\ Fits(D, U, D \div 20)
                 /\ \A V \in LadderSet : (V > T /\ Fits(D, V, D \div 20)) => U <= V
         ELSE 1048576000

\* C17: find_optimal_capsule_size(D, T_i) is T_i if D + 8 + floor(0.05 D)
\* <= T_i, else T_i if D + 8 + max(floor(0.01 D), 1024) <= T_i, else the
\* smallest ladder size T > T_i with D + 8 + floor(0.05 D) <= T, else the
\* largest ladder size; it is always a ladder value >= T_i.
C17_UpgradePolicy ==
    (IsSome(call) /\ Unwrap(call).fn = "find_optimal_capsule_size") =>
        /\ ret = Some(UpgradePolicy(Unwrap(call).processed_data_size,
                                    Unwrap(call).target_capsule_size))
        /\ Unwrap(ret) \in {262144, 1048576, 10485760, 104857600, 1048576000}
        /\ Unwrap(ret) >= Unwrap(call).target_capsule_size

C17_Witness ==
    /\ IsSome(call)
    /\ Unwrap(call).fn = "find_optimal_capsule_size"
    /\ Unwrap(call).target_capsule_size = 10 * MB
    /\ ~Fits(Unwrap(call).processed_data_size, 10 * MB,
             Unwrap(call).processed_data_size \div 20)
    /\ ret = Some(10 * MB)

\* pad_len = (T' - 44) - D - 4 - 4
PadLen(D, T) == (T - 44) - D - 4 - 4

\* C18: add_deterministic_padding fails with ConsensusViolation exactly when
\* pad_len = (T' - 44) - D - 4 - 4 is 0, D the length of the data and T' the
\* capsule size; for pad_len > 0 it succeeds and emits pad_len filler bytes.
C18_PadLen ==
    (/\ IsSome(call)
     /\ Unwrap(call).fn = "add_deterministic_padding"
     /\ PadLen(Unwrap(call).current_size, Unwrap(call).target_size) >= 0) =>
        LET pad_len == PadLen(Unwrap(call).current_size, Unwrap(call).target_size)
        IN /\ (pad_len = 0 <=> ret = Some(Err("ConsensusViolation")))
           /\ (pad_len > 0 =>
                 /\ Unwrap(ret).ok
                 /\ Unwrap(ret).v.fill = pad_len)

\* offsets of a marker FF FF FF FF that is preceded by at least 4 bytes and
\* lies wholly before the final 4-byte footer
MarkersBeforeFooter(bytes) ==
    {i \in 4..(Len(bytes) - 8) : Slice(bytes, i, i + 4) = PADDING_MARKER}

\* C19: remove_padding of any payload writes the first D bytes, D the
\* little-endian u32 of the last 4 bytes, if a marker FF FF FF FF occurs that
\* is preceded by at least 4 bytes and lies wholly before the 4-byte footer,
\* and the whole payload if no such marker occurs.
C19_RemovePadding ==
    (IsSome(call) /\ Unwrap(call).fn = "remove_padding") =>
        LET bytes == Unwrap(call).data.bytes
            written == Unwrap(ret).bytes
        IN IF MarkersBeforeFooter(bytes) # {}
           THEN LET D == from_le_bytes(Slice(bytes, Len(bytes) - 4, Len(bytes)))
                IN /\ 0 <= D /\ D <= Len(bytes)
                   /\ written = Slice(bytes, 0, D)
           ELSE written = bytes

\* C20: extract decrypts capsule i under the nonce rebuilt from the
\* capsule_index of the file's decoded header, so with the header of capsule 0
\* carrying another index (and a checksum that matches it) than the one its
\* chunk was encrypted under, extract with the passphrase of create does not
\* return Ok.
C20_NonceFromHeader ==
    (/\ pc = "extracted"
     /\ tampered = "index"
     /\ IsSome(encryption_key)
     /\ decryption_key = encryption_key) =>
        ~Unwrap(extract_result).ok

\* C21: whenever add_deterministic_padding returns Ok, the buffer has exactly
\* target_size bytes, holds the marker at offset current_size and ends with
\* little_endian_u32(current_size); it never returns Ok with an unpadded or
\* over-long buffer, and target_size - current_size - 8 never underflows.
C21_PaddedToTarget ==
    (IsSome(call) /\ Unwrap(call).fn = "add_deterministic_padding") =>
        LET current_size == Unwrap(call).current_size
            target_size == Unwrap(call).target_size
            padded == Unwrap(ret)
        IN /\ padded.err # "Panic"
           /\ padded.ok =>
                 /\ BufLen(padded.v) = target_size
                 /\ current_size \in MarkerOffsets(padded.v)
                 /\ LastU32(padded.v) = current_size

\* the steps of create before the manifest is written
BeforeManifest ==
    {"chunks", "write", "manifest", "empty_capsule", "empty_manifest", "create_failed"}

\* the capsule files of directory d whose names carry the prefix of the id
FilesOfSet(d, id) == {e \in fs[d].capsule : e.name.prefix = Prefix16(id)}

\* C22: create writes the manifest last: while a create runs, and after one
\* that failed, its directory holds no manifest; and whenever a directory
\* holds a manifest, it holds all capsule_count capsule files the manifest
\* names, one for each index 0 .. capsule_count - 1.
C22_ManifestLast ==
    /\ pc \in BeforeManifest => fs[run].manifest = {}
    /\ \A d \in 1..MaxRuns : \A m \in fs[d].manifest :
          /\ Len(m.content.capsules) = m.content.metadata.capsule_count
          /\ {e.name.index : e \in FilesOfSet(d, m.content.id)}
                = 0..(m.content.metadata.capsule_count - 1)
          /\ \A i \in 1..Len(m.content.capsules) :
                \E e \in FilesOfSet(d, m.content.id) :
                   e.name.index = m.content.capsules[i].index

\* a manifest of two or more capsules has been written after its capsule files
C22_Witness ==
    /\ pc = "created"
    /\ \E m \in fs[run].manifest :
          /\ m.content.metadata.capsule_count >= 2
          /\ Cardinality(FilesOfSet(run, m.content.id)) = m.content.metadata.capsule_count

\* C23: when create had a passphrase and extract (or
\* reconstruct_file_from_capsules) has none, or create had none and extract
\* has one, the operation does not return Ok.
C23_PassphrasePresence ==
    (/\ pc \in {"extracted", "reconstructed"}
     /\ IsSome(encryption_key) # IsSome(decryption_key)) =>
        ~Unwrap(extract_result).ok

\* a set of a non-empty input created with a passphrase went through extract
\* without one: every capsule was handed on undecrypted and the final
\* comparison of the checksums failed
C23_Witness ==
    /\ pc = "extracted"
    /\ tampered = "none"
    /\ input.size > 0
    /\ IsSome(encryption_key)
    /\ decryption_key = None
    /\ output_file # <<>>
    /\ Unwrap(extract_result).err = "ChecksumMismatch"
====
